---- MODULE Spec2Model ----
(***************************************************************************)
(* Link shortener (NestJS): AppController -> AppService -> AppRepository,  *)
(* with the two repositories AppRepositoryHashmap (in-process Map) and     *)
(* AppRepositoryRedis (one redis client, commands answered in order).      *)
(*                                                                         *)
(* Strings that the code builds character by character (the hash) are      *)
(* sequences of one-character strings; strings that the code only stores   *)
(* and hands back (the url, error names) are TLA+ strings.                 *)
(***************************************************************************)
EXTENDS Integers, Sequences, FiniteSets, TLC

\* ------------------------------------------------------------------ bounds
\* Requests (POST /shorten, GET /:hash) received in one run.
MaxCalls == 2
\* Longest base-36 fraction that Math.random().toString(36) prints.
MaxDigits == 6
\* Redis commands rejected in one run.
MaxFailures == 1

\* -------------------------------------------------------------- constants
\* .toString(36)
Radix == 36
\* .slice(7)
SliceStart == 7
\* code: 400
BadRequest == 400

\* ----------------------------------------------------------------- values
\* JavaScript undefined (Map.get of a missing key, a body without url).
Undefined == "<undefined>"
\* redis nil reply (GET of a missing key).
Null == "<null>"
\* A field that holds nothing yet.
None == "<none>"
NoErr == "<noerr>"

NoUrlMsg == "No url provided. Please provide in the body. E.g. {'url':'https://google.com'}"

\* Bodies a client can post: no url field, an empty url, two different urls.
Urls == {"aerabi.com", "docker.com"}
Bodies == {Undefined, ""} \cup Urls

\* Rejections a redis command can end with.
RedisErrors == {"ECONNRESET", "OOM"}

\* Digits 0..35 as Number.prototype.toString prints them.
Chars36 ==
  << "0", "1", "2", "3", "4", "5", "6", "7", "8", "9", "a", "b", "c", "d",
     "e", "f", "g", "h", "i", "j", "k", "l", "m", "n", "o", "p", "q", "r",
     "s", "t", "u", "v", "w", "x", "y", "z" >>

\* The digit values the random source is sampled over (the least and the greatest).
DigitSample == {0, Radix - 1}

\* Math.random(): a number in [0, 1), given by the digits of its shortest
\* base-36 fraction (no digit: the number 0; the last digit is never 0).
MathRandom ==
  { d \in UNION { [1..n -> DigitSample] : n \in 0..MaxDigits } :
      Len(d) = 0 \/ d[Len(d)] # 0 }

\* Number.prototype.toString(36) of a number in [0, 1).
ToString36(d) ==
  IF Len(d) = 0 THEN << "0" >>
  ELSE << "0", "." >> \o [i \in 1..Len(d) |-> Chars36[d[i] + 1]]

\* String.prototype.slice(start), start >= 0.
Slice(s, start) ==
  IF start >= Len(s) THEN << >> ELSE SubSeq(s, start + 1, Len(s))

\* const hash = Math.random().toString(36).slice(7)
GenerateHash(r) == Slice(ToString36(r), SliceStart)

\* Every hash the generator can produce: GenerateHash of some Math.random().
Hashes == { GenerateHash(r) : r \in MathRandom }

\* A hash a client can ask for that the generator never produced.
DoesNotExist == << "d", "o", "e", "s", "n", "o", "t", "e", "x", "i", "s", "t" >>
Requested == Hashes \cup {DoesNotExist}

\* A check for a missing url only: if (url === undefined)
FalsyMissingOnly(url) == url = Undefined

\* if (!url)
Falsy(url) == url = Undefined \/ url = ""

\* ------------------------------------------------------------- Map, redis
EmptyMap == [k \in {} |-> None]

\* A set that keeps the value a key already has.
MapSetKeepFirst(m, k, v) == [x \in DOMAIN m \cup {k} |-> IF x \in DOMAIN m THEN m[x] ELSE v]

\* Map.prototype.set / redis SET: overwrite
MapSet(m, k, v) == [x \in DOMAIN m \cup {k} |-> IF x = k THEN v ELSE m[x]]

\* Map.prototype.get
MapGet(m, k) == IF k \in DOMAIN m THEN m[k] ELSE Undefined

\* redis GET
RedisGet(m, k) == IF k \in DOMAIN m THEN m[k] ELSE Null

\* ------------------------------------------------ Observable notifications
Pending == [t |-> "P"]
NextN(v) == [t |-> "N", v |-> v]
ErrorN(e) == [t |-> "E", e |-> e]

\* A pipe that answers with the hash whatever the write did.
ShortenPipeSwallow(n, hash) == NextN(hash)

\* A pipe that replaces the failure of the write by one of its own.
ShortenPipeWrap(n, hash) == IF n.t = "E" THEN ErrorN("InternalServerError") ELSE NextN(hash)

\* AppService.shorten: .pipe(map(() => hash))
ShortenPipe(n, hash) == IF n.t = "E" THEN n ELSE NextN(hash)

\* AppController.shorten: .pipe(map((hash) => ({ hash })))
HashPayload(n) == IF n.t = "E" THEN n ELSE NextN([hash |-> n.v])

\* A pipe that turns a missing mapping into a failure.
UrlPayloadNotFound(n) ==
  IF n.t = "E" THEN n
  ELSE IF n.v \in {Undefined, Null} THEN ErrorN("NotFound") ELSE NextN([url |-> n.v])

\* AppController.retrieveAndRedirect: .pipe(map((url) => ({ url })))
UrlPayload(n) == IF n.t = "E" THEN n ELSE NextN([url |-> n.v])

\* AppController.shorten: of({ error, code: 400 })
ErrorPayload == NextN([error |-> NoUrlMsg, code |-> BadRequest])

\* ------------------------------------------------------------------ state
VARIABLES
  backend,     \* the class provided for AppRepositoryTag
  hashMap,     \* AppRepositoryHashmap.hashMap
  redisData,   \* the keys held by the redis server
  redisQueue,  \* commands sent on the redis client, not yet answered
  calls        \* every call invoked so far, in order of invocation

vars == << backend, hashMap, redisData, redisQueue, calls >>

Init ==
  /\ backend \in {"hashmap", "redis"}
  /\ hashMap = EmptyMap
  /\ redisData = EmptyMap
  /\ redisQueue = << >>
  /\ calls = << >>

\* The mapping set of the backend in use.
Store == IF backend = "hashmap" THEN hashMap ELSE redisData

\* A retrieve piped from a shorten belongs to the request of that shorten.
Room == Cardinality({ i \in DOMAIN calls : calls[i].from = 0 }) < MaxCalls

\* Redis commands rejected so far.
Failures == Cardinality({ i \in DOMAIN calls : calls[i].note.t = "E" })

\* A call record.  kind: "shorten" | "retrieve"; hash: the key put or got;
\* from: the shorten call whose subscriber invoked this retrieve with the
\* hash it received (0: none); pc: "ready" (of(value) built, not yet
\* subscribed), "set" / "get" (redis command in flight), "done";
\* held: the value inside of(...); writes: backend writes issued;
\* wfail: the rejection of the write; note: what the caller received;
\* seen: for a retrieve, the puts to its key that had delivered their value
\* when it was invoked.
Call(kind, url, hash, from, pc, held, writes, note, seen) ==
  [ kind |-> kind, url |-> url, hash |-> hash, from |-> from,
    pc |-> pc, held |-> held, writes |-> writes, wfail |-> NoErr,
    note |-> note, seen |-> seen ]

\* The puts to the key hash, among the calls cs, that have delivered a value.
Completed(cs, hash) ==
  { p \in DOMAIN cs : /\ cs[p].kind = "shorten" /\ cs[p].writes > 0
                      /\ cs[p].hash = hash
                      /\ cs[p].pc = "done" /\ cs[p].note.t = "N" }

\* AppService.retrieve over AppRepositoryHashmap.get: of(this.hashMap.get(hash))
HashmapRetrieve(cs, hash, from) ==
  Call("retrieve", None, hash, from, "ready", MapGet(hashMap, hash), 0, Pending,
       Completed(cs, hash))

\* AppService.retrieve over AppRepositoryRedis.get: from(this.redisClient.get(hash))
RedisRetrieve(cs, hash, from) ==
  Call("retrieve", None, hash, from, "get", None, 0, Pending, Completed(cs, hash))

GetCmd(hash, c) == [op |-> "GET", key |-> hash, val |-> None, call |-> c]
SetCmd(hash, url, c) == [op |-> "SET", key |-> hash, val |-> url, call |-> c]

\* POST /shorten
shorten(url, hash) ==
  /\ Room
  /\ IF Falsy(url)
     THEN /\ calls' = Append(calls,
               Call("shorten", url, << >>, 0, "done", None, 0, ErrorPayload, {}))
          /\ UNCHANGED << backend, hashMap, redisData, redisQueue >>
     ELSE IF backend = "hashmap"
     THEN \* of(this.hashMap.set(hash, url).get(hash))
          /\ hashMap' = MapSet(hashMap, hash, url)
          /\ calls' = Append(calls,
               Call("shorten", url, hash, 0, "ready", MapGet(hashMap', hash), 1, Pending, {}))
          /\ UNCHANGED << backend, redisData, redisQueue >>
     ELSE \* from(this.redisClient.set(hash, url))
          /\ redisQueue' = Append(redisQueue, SetCmd(hash, url, Len(calls) + 1))
          /\ calls' = Append(calls,
               Call("shorten", url, hash, 0, "set", None, 1, Pending, {}))
          /\ UNCHANGED << backend, hashMap, redisData >>

\* GET /:hash
retrieve(hash) ==
  /\ Room
  /\ IF backend = "hashmap"
     THEN /\ calls' = Append(calls, HashmapRetrieve(calls, hash, 0))
          /\ UNCHANGED << backend, hashMap, redisData, redisQueue >>
     ELSE /\ calls' = Append(calls, RedisRetrieve(calls, hash, 0))
          /\ redisQueue' = Append(redisQueue, GetCmd(hash, Len(calls) + 1))
          /\ UNCHANGED << backend, hashMap, redisData >>

\* What a call delivers to its caller for the repository's notification n.
Deliver(c, n) ==
  IF c.kind = "shorten" THEN HashPayload(ShortenPipe(n, c.hash)) ELSE UrlPayload(n)

Finish(c, n) == [c EXCEPT !.pc = "done", !.note = Deliver(c, n)]

\* The caller piped shorten into mergeMap((hash) => appService.retrieve(hash)):
\* retrieve is invoked with the delivered hash, in the same step.
Pipes(c, n) == c.kind = "shorten" /\ Deliver(c, n).t = "N"

\* The subscriber of of(value) receives the value (hashmap repository).
Subscribe(i, piped) ==
  /\ calls[i].pc = "ready"
  /\ LET c == calls[i]
         n == NextN(c.held)
         done == [calls EXCEPT ![i] = Finish(c, n)]
     IN  /\ piped => Pipes(c, n)
         /\ calls' = IF piped
                     THEN Append(done, HashmapRetrieve(done, Deliver(c, n).v.hash, i))
                     ELSE done
  /\ UNCHANGED << backend, hashMap, redisData, redisQueue >>

\* The redis server answers the oldest command and the client resolves it.
RedisReply(piped) ==
  /\ redisQueue # << >>
  /\ LET cmd == Head(redisQueue)
         i == cmd.call
         c == calls[i]
     IN  IF cmd.op = "SET"
         THEN \* put: mergeMap(() => from(this.redisClient.get(hash)))
              /\ ~piped
              /\ redisData' = MapSet(redisData, cmd.key, cmd.val)
              /\ redisQueue' = Append(Tail(redisQueue), GetCmd(cmd.key, i))
              /\ calls' = [calls EXCEPT ![i].pc = "get"]
         ELSE LET n == NextN(RedisGet(redisData, cmd.key))
                  done == [calls EXCEPT ![i] = Finish(c, n)]
              IN  /\ piped => Pipes(c, n)
                  /\ redisData' = redisData
                  /\ IF piped
                     THEN /\ calls' = Append(done, RedisRetrieve(done, Deliver(c, n).v.hash, i))
                          /\ redisQueue' = Append(Tail(redisQueue),
                                                  GetCmd(Deliver(c, n).v.hash, Len(calls) + 1))
                     ELSE /\ calls' = done
                          /\ redisQueue' = Tail(redisQueue)
  /\ UNCHANGED << backend, hashMap >>

\* The oldest redis command is rejected with e; a rejected SET may or may
\* not have reached the server before the rejection (applied).
RedisError(e, applied) ==
  /\ redisQueue # << >>
  /\ Failures < MaxFailures
  /\ LET cmd == Head(redisQueue)
         i == cmd.call
         c == calls[i]
     IN  /\ applied => cmd.op = "SET"
         /\ redisData' = IF applied THEN MapSet(redisData, cmd.key, cmd.val) ELSE redisData
         /\ redisQueue' = Tail(redisQueue)
         /\ calls' = [calls EXCEPT ![i] =
                        [Finish(c, ErrorN(e)) EXCEPT
                           !.wfail = IF cmd.op = "SET" THEN e ELSE NoErr]]
  /\ UNCHANGED << backend, hashMap >>

Next ==
  \/ \E url \in Bodies, hash \in Hashes : shorten(url, hash)
  \/ \E hash \in Requested : retrieve(hash)
  \/ \E i \in DOMAIN calls, piped \in BOOLEAN : Subscribe(i, piped)
  \/ \E piped \in BOOLEAN : RedisReply(piped)
  \/ \E e \in RedisErrors, applied \in BOOLEAN : RedisError(e, applied)

Spec == Init /\ [][Next]_vars

\* ------------------------------------------------------------- properties
IsShorten(i) == calls[i].kind = "shorten"
IsGet(i) == calls[i].kind = "retrieve"
\* shorten calls that reached the repository's put
IsPut(i) == IsShorten(i) /\ calls[i].writes > 0
Done(i) == calls[i].pc = "done"
\* the caller received a value
Emitted(i) == Done(i) /\ calls[i].note.t = "N"
\* the caller received a failure
Failed(i) == Done(i) /\ calls[i].note.t = "E"
\* the caller of shorten received a hash
GotHash(i) == IsShorten(i) /\ Emitted(i) /\ "hash" \in DOMAIN calls[i].note.v
\* no put to the key of g was invoked before g (a later one is queued behind it)
NeverWritten(g) == \A p \in 1..(g - 1) : ~(IsPut(p) /\ calls[p].hash = calls[g].hash)
\* the put p had delivered its value before the retrieve g was invoked
CompletedBefore(p, g) == p \in calls[g].seen
\* the "absent" signal of the backend in use
Absent == IF backend = "hashmap" THEN Undefined ELSE Null
Alphabet == { Chars36[i] : i \in 1..Radix }

\* C1: when shorten(u) delivers a hash h and retrieve(h) is invoked immediately
\* after (in the same step), retrieve delivers exactly u, for both backends.
C1_RoundTrip ==
  \A g \in DOMAIN calls :
    (IsGet(g) /\ calls[g].from # 0 /\ Emitted(g))
      => calls[g].note.v.url = calls[calls[g].from].url

\* C2 (as stated): retrieve(h) for a hash h that no put has written delivers the
\* "absent" signal: no error, and no value equal to a stored url.
C2_AbsenceAlways ==
  \A g \in DOMAIN calls :
    (IsGet(g) /\ Done(g) /\ NeverWritten(g))
      => Emitted(g) /\ calls[g].note.v.url = Absent

\* C2 (amended): retrieve(h) for a hash h that no put has written delivers the
\* "absent" signal and never a stored url; the only error it can end with is
\* the rejection of its own read by the durable backend.
C2_Absence ==
  \A g \in DOMAIN calls :
    (IsGet(g) /\ Done(g) /\ NeverWritten(g))
      => \/ Emitted(g) /\ calls[g].note.v.url = Absent
            /\ \A k \in DOMAIN Store : Store[k] # calls[g].note.v.url
         \/ backend = "redis" /\ Failed(g) /\ calls[g].note.e \in RedisErrors

C2_Witness ==
  \E g \in DOMAIN calls :
    /\ IsGet(g) /\ Emitted(g) /\ calls[g].hash \in Hashes
    /\ NeverWritten(g)
    /\ calls[g].note.v.url = Absent
    /\ \E p \in DOMAIN calls : p < g /\ IsPut(p) /\ calls[p].hash \in DOMAIN Store

\* No put to the key of g was invoked after p and before g.
LastPutBefore(p, g) ==
  \A q \in (p + 1)..(g - 1) : ~(IsPut(q) /\ calls[q].hash = calls[g].hash)

\* The case of C3 for the get g: two puts p1, p2 of different urls to g's key,
\* both completed before g was invoked, p2 the last put invoked before g.
Overwritten(p1, p2, g) ==
  /\ IsGet(g)
  /\ p2 < g /\ IsPut(p2) /\ calls[p2].hash = calls[g].hash
  /\ p1 < p2 /\ IsPut(p1) /\ calls[p1].hash = calls[g].hash
  /\ calls[p1].url # calls[p2].url
  /\ CompletedBefore(p1, g) /\ CompletedBefore(p2, g)
  /\ LastPutBefore(p2, g)

\* C3: after put(k, v1) then put(k, v2) have both completed, a get(k) delivers
\* v2 (never v1, never "absent") until a later put to k.
C3_LastWriteWins ==
  \A g \in DOMAIN calls :
    (IsGet(g) /\ Emitted(g)) =>
      \A p2 \in 1..(g - 1) : \A p1 \in 1..(p2 - 1) :
        Overwritten(p1, p2, g) => calls[g].note.v.url = calls[p2].url

C3_Witness ==
  /\ backend = "redis"
  /\ \E g, p1, p2 \in DOMAIN calls :
       Overwritten(p1, p2, g) /\ Emitted(g) /\ calls[g].note.v.url = calls[p2].url

C5_HashShape ==
  \A i, j \in DOMAIN calls :
    (IsPut(i) /\ IsPut(j))
      => /\ Len(calls[i].hash) = Len(calls[j].hash)
         /\ \A n \in 1..Len(calls[i].hash) : calls[i].hash[n] \in Alphabet

\* C6: for a non-empty url the hash that shorten delivers is a non-empty string.
C6_ValidHash ==
  \A i \in DOMAIN calls :
    (GotHash(i) /\ calls[i].url \in Urls) => Len(calls[i].note.v.hash) > 0

\* C7: a mapping (h, u) in the store stays in the store, with the url u.
C7_NeverUpdated ==
  [][\A k \in DOMAIN Store : k \in DOMAIN Store' /\ Store'[k] = Store[k]]_vars

\* C8: when shorten has delivered the hash h, its put was issued and the store
\* holds a mapping for h.
C8_WriteBeforeReply ==
  \A i \in DOMAIN calls :
    GotHash(i) => /\ calls[i].writes >= 1
                  /\ calls[i].note.v.hash = calls[i].hash
                  /\ calls[i].note.v.hash \in DOMAIN Store

C8_Witness ==
  /\ backend = "redis"
  /\ \E i \in DOMAIN calls : GotHash(i) /\ Store[calls[i].note.v.hash] = calls[i].url

\* C9: when the write of shorten is rejected, shorten ends with that same
\* failure, delivers no hash and issues no second write.
C9_FailurePropagates ==
  \A i \in DOMAIN calls :
    (IsShorten(i) /\ calls[i].wfail # NoErr)
      => /\ Failed(i)
         /\ calls[i].note = ErrorN(calls[i].wfail)
         /\ calls[i].writes = 1
         /\ \A n \in 1..Len(redisQueue) : redisQueue[n].call # i

C9_Witness ==
  \E i \in DOMAIN calls :
    IsShorten(i) /\ calls[i].wfail \in RedisErrors /\ Done(i)
      /\ calls[i].hash \notin DOMAIN Store

\* C10: with the hashmap backend, a get(k) invoked after a put(k, v) was invoked
\* delivers v or the url of a later put to k, never "absent", never an older url.
C10_ReadAfterWrite ==
  backend = "hashmap" =>
    \A g \in DOMAIN calls :
      (IsGet(g) /\ Done(g)) =>
        \A p \in 1..(g - 1) :
          (IsPut(p) /\ calls[p].hash = calls[g].hash)
            => /\ Emitted(g)
               /\ \E q \in p..Len(calls) :
                    /\ IsPut(q) /\ calls[q].hash = calls[g].hash
                    /\ calls[g].note.v.url = calls[q].url

C10_Witness ==
  /\ backend = "hashmap"
  /\ \E g, p1, p2 \in DOMAIN calls :
       /\ IsGet(g) /\ Emitted(g)
       /\ IsPut(p1) /\ calls[p1].hash = calls[g].hash
       /\ IsPut(p2) /\ calls[p2].hash = calls[g].hash
       /\ p1 < p2 /\ p2 < g
       /\ calls[p1].url # calls[p2].url
       /\ calls[p1].pc = "ready"
       /\ calls[g].note.v.url = calls[p2].url

\* C11: with the redis backend, when shorten has ended in failure the store
\* holds no mapping created by that call: its key is not mapped to its url,
\* unless another put wrote that same mapping.
C11_FailedShortenLeavesNoMapping ==
  backend = "redis" =>
    \A i \in DOMAIN calls :
      (IsPut(i) /\ Failed(i) /\ calls[i].hash \in DOMAIN redisData
         /\ redisData[calls[i].hash] = calls[i].url)
        => \E j \in DOMAIN calls :
             /\ j # i /\ IsPut(j)
             /\ calls[j].hash = calls[i].hash /\ calls[j].url = calls[i].url

====
